---------------------------- MODULE Spec2Model ----------------------------
(***************************************************************************)
(* Model of GroupGO/Trimming, src/Splitter.py: the FASTQ record extractor  *)
(* (extract_record), the midpoint splitter (split_record), the output path *)
(* derivation (generate_output_paths) and the driver                      *)
(* (split_merged_data_set).                                                *)
(*                                                                         *)
(* A Python string is a sequence of one-character strings.  A file's       *)
(* contents are its sequence of lines.  The interpreter is the one the     *)
(* script names (Splitter.py:1, `#!/usr/bin/env python`, and time.clock at *)
(* Splitter.py:154): Python 2, where `/` on two ints is floor division.    *)
(***************************************************************************)
EXTENDS Integers, Sequences, FiniteSets, TLC

VARIABLES
    pc,            \* where the run is: idle, loop, returned, raised, split_done, paths_done
    runs,          \* number of calls of split_merged_data_set started so far
    overwrite,     \* the overwrite argument of the current call
    folder_exists, \* os.path.exists(output_directory)
    exists,        \* <<forward path exists, reverse path exists>>
    content,       \* <<lines of the forward file, lines of the reverse file>>
    output_files,  \* state of the two file objects of this run: none, open, closed
    input_file,    \* state of the input file object of this run: none, open, closed
    input,         \* the raw lines the loop of extract_record has consumed in this run
    header,        \* accumulator slots of extract_record
    sequence,
    quality,
    at,            \* <<index of the line held in header, same for sequence>>, 0 when empty
    records,       \* the records yielded in this run, in order
    origin,        \* for each yielded record, the input line indices of its three parts
    message,       \* what the run printed: none, started, aborted
    error,         \* the exception that ended the run: none, IndexError, IOError
    input_path,    \* arguments and result of generate_output_paths
    folder_path,
    output_paths

vars == <<pc, runs, overwrite, folder_exists, exists, content, output_files, input_file, input,
          header, sequence, quality, at, records, origin, message, error,
          input_path, folder_path, output_paths>>

fileVars == <<folder_exists, exists, content, output_files, input_file, message, error>>
loopVars == <<input, header, sequence, quality, at, records, origin>>
pathVars == <<input_path, folder_path, output_paths>>

----------------------------------------------------------------------------
(* Bounds *)

MaxLines == 6      \* lines one run reads before end of file
MaxRuns == 2       \* calls of split_merged_data_set
MaxSeqLen == 5     \* length of the strings handed to split_record directly
MaxPathLen == 5    \* length of the input path handed to generate_output_paths

NL == "\n"
Whitespace == {" ", NL}

Min(a, b) == IF a < b THEN a ELSE b

(* The raw lines the input file may hold. *)
Lines ==
    { <<"@", "r", NL>>,          \* a header; also a quality string of Phred 31, 81
      <<"@", "s", NL>>,
      <<"A", "C", NL>>,
      <<" ", "G", "T", "A", NL>>,
      <<"+", NL>>,
      <<NL>> }                   \* a blank line

(* All strings over S of length at most n. *)
RECURSIVE StringsUpTo(_, _)
StringsUpTo(S, n) ==
    IF n = 0 THEN {<<>>}
    ELSE LET shorter == StringsUpTo(S, n - 1)
         IN  shorter \cup { Append(s, c) : s \in shorter, c \in S }

----------------------------------------------------------------------------
(* str.strip(): leading and trailing whitespace removed (Splitter.py:70). *)

RECURSIVE lstrip(_)
lstrip(s) ==
    IF s # <<>> /\ Head(s) \in Whitespace THEN lstrip(Tail(s)) ELSE s

RECURSIVE rstrip(_)
rstrip(s) ==
    IF s # <<>> /\ s[Len(s)] \in Whitespace THEN rstrip(SubSeq(s, 1, Len(s) - 1)) ELSE s

strip(s) == rstrip(lstrip(s))

(* s[start:end] for 0 <= start, 0 <= end: both ends clamped to len(s). *)
Slice(s, start, end) == SubSeq(s, Min(start, Len(s)) + 1, Min(end, Len(s)))

----------------------------------------------------------------------------
(* extract_record, Splitter.py:61-80 *)

(* line[0] == '@' and line[0] != '+', for a non-empty line. *)
IsHeader(line) == line[1] = "@"

(* A bug extract_record could have: the test for the separator left out,   *)
(* so that the line after the sequence line is always the quality.         *)
IsSeparatorNever(line) == FALSE

IsSeparator(line) == line[1] = "+"

(* One pass of the loop body on the raw line number n, from the slots      *)
(* (h, s, q) whose header and sequence came from the lines a[1] and a[2].  *)
(* raised: line[0] on an empty string raised IndexError.  yielded: the     *)
(* pass reached the yield; rec and from are what it yielded, and the slots *)
(* are reset when the generator is resumed.                                *)
Feed(h, s, q, a, raw, n) ==
    LET line == strip(raw)
    IN  IF line = <<>>
        THEN [raised |-> TRUE, yielded |-> FALSE, rec |-> <<>>, from |-> <<>>,
              header |-> h, sequence |-> s, quality |-> q, at |-> a]
        ELSE LET h1 == IF IsHeader(line) THEN line ELSE h
                 takesSeq == ~IsHeader(line) /\ h # <<>> /\ s = <<>>
                 takesQual == /\ ~IsHeader(line) /\ ~takesSeq
                              /\ h # <<>> /\ s # <<>> /\ q = <<>>
                              /\ ~IsSeparator(line)
                 s1 == IF takesSeq THEN line ELSE s
                 q1 == IF takesQual THEN line ELSE q
                 a1 == <<IF IsHeader(line) THEN n ELSE a[1],
                         IF takesSeq THEN n ELSE a[2]>>
             IN  IF h1 # <<>> /\ s1 # <<>> /\ q1 # <<>>
                 THEN [raised |-> FALSE, yielded |-> TRUE,
                       rec |-> <<h1, s1, q1>>, from |-> <<a1[1], a1[2], n>>,
                       header |-> <<>>, sequence |-> <<>>, quality |-> <<>>,
                       at |-> <<0, 0>>]
                 ELSE [raised |-> FALSE, yielded |-> FALSE, rec |-> <<>>, from |-> <<>>,
                       header |-> h1, sequence |-> s1, quality |-> q1, at |-> a1]

(* list(extract_record(lines)): the records yielded before the end of the  *)
(* lines or the first IndexError.                                          *)
RECURSIVE ExtractFrom(_, _, _, _, _, _)
ExtractFrom(lines, n, h, s, q, out) ==
    IF n > Len(lines) THEN [records |-> out, raised |-> FALSE]
    ELSE LET r == Feed(h, s, q, <<0, 0>>, lines[n], n)
         IN  IF r.raised THEN [records |-> out, raised |-> TRUE]
             ELSE ExtractFrom(lines, n + 1, r.header, r.sequence, r.quality,
                              IF r.yielded THEN Append(out, r.rec) ELSE out)

extract_record(lines) == ExtractFrom(lines, 1, <<>>, <<>>, <<>>, <<>>)

----------------------------------------------------------------------------
(* split_record, Splitter.py:83-96 *)

(* A bug split_record could have: the midpoint rounded up. *)
HalvesRoundedUp(seq_len) ==
    << <<0, (seq_len + 1) \div 2>>, <<(seq_len + 1) \div 2, seq_len>> >>

(* [(0, seq_len/2), (seq_len/2, seq_len)] with the int division of Python 2. *)
Halves(seq_len) ==
    << <<0, seq_len \div 2>>, <<seq_len \div 2, seq_len>> >>

(* A bug split_record could have: the reverse half starting one character  *)
(* late.                                                                   *)
SubRecordOffByOne(h, s, q, start, end) ==
    IF start = 0 THEN <<h, Slice(s, start, end), <<"+">>, Slice(q, start, end)>>
    ELSE <<h, Slice(s, start + 1, end), <<"+">>, Slice(q, start + 1, end)>>

(* The four lines of '%s\n%s\n+\n%s\n' % (header, sequence[start:end],     *)
(* quality[start:end]).                                                    *)
SubRecord(h, s, q, start, end) ==
    <<h, Slice(s, start, end), <<"+">>, Slice(q, start, end)>>

(* A bug split_record could have: the two output files taken in the wrong  *)
(* order.                                                                  *)
split_record_swapped(files, h, s, q) ==
    LET lengths == Halves(Len(s))
    IN  << files[1] \o SubRecord(h, s, q, lengths[2][1], lengths[2][2]),
           files[2] \o SubRecord(h, s, q, lengths[1][1], lengths[1][2]) >>

(* The contents of the two files after split_record wrote to them. *)
split_record(files, h, s, q) ==
    LET lengths == Halves(Len(s))
    IN  << files[1] \o SubRecord(h, s, q, lengths[1][1], lengths[1][2]),
           files[2] \o SubRecord(h, s, q, lengths[2][1], lengths[2][2]) >>

----------------------------------------------------------------------------
(* generate_output_paths, Splitter.py:109-123 *)

Separators == {".", "/"}

(* re.split('\.|/', s): the pieces between the dots and slashes of s. *)
RECURSIVE Split(_)
Split(s) ==
    IF s = <<>> THEN << <<>> >>
    ELSE LET rest == Split(Tail(s))
         IN  IF Head(s) \in Separators
             THEN << <<>> >> \o rest
             ELSE << <<Head(s)>> \o rest[1] >> \o Tail(rest)

Forward == <<"f", "o", "r", "w", "a", "r", "d">>
Reverse == <<"r", "e", "v", "e", "r", "s", "e">>

(* '%s/%s_%s.%s' % (folder_path, name, direction, extension) *)
FormatPath(folder, name, direction, extension) ==
    folder \o <<"/">> \o name \o <<"_">> \o direction \o <<".">> \o extension

(* split_name[-2:-1] holds the piece before the last one, or nothing when  *)
(* there is one piece only; '.'.join of it is that piece or ''.            *)
generate_output_paths(path, folder) ==
    LET split_name == Split(path)
        extension == split_name[Len(split_name)]
        name == IF Len(split_name) >= 2 THEN split_name[Len(split_name) - 1] ELSE <<>>
    IN  << FormatPath(folder, name, Forward, extension),
           FormatPath(folder, name, Reverse, extension) >>

----------------------------------------------------------------------------
(* split_merged_data_set, Splitter.py:126-149 *)

(* A bug the driver could have: the overwrite setting ignored. *)
ShouldWriteAlways(paths_exist, ow) == TRUE

(* not all(os.path.exists(path) for path in output_paths) or overwrite *)
ShouldWrite(paths_exist, ow) == ~(paths_exist[1] /\ paths_exist[2]) \/ ow

(* What an output file may hold before the first call. *)
PriorContents == { <<>>, <<<<"@","r">>, <<"A">>, <<"+">>, <<"C">>>> }

Init ==
    /\ pc = "idle"
    /\ runs = 0
    /\ overwrite = FALSE
    /\ folder_exists \in BOOLEAN
    /\ exists \in { e \in BOOLEAN \X BOOLEAN : (e[1] \/ e[2]) => folder_exists }
    /\ content \in { c \in PriorContents \X PriorContents :
                       \A i \in 1..2 : ~exists[i] => c[i] = <<>> }
    /\ output_files = <<"none", "none">>
    /\ input_file = "none"
    /\ input = <<>>
    /\ header = <<>>
    /\ sequence = <<>>
    /\ quality = <<>>
    /\ at = <<0, 0>>
    /\ records = <<>>
    /\ origin = <<>>
    /\ message = "none"
    /\ error = "none"
    /\ input_path = <<>>
    /\ folder_path = <<>>
    /\ output_paths = <<>>

(* Lines 135-142 and 148-149: the call up to the first pass of the loop.   *)
(* ow is the overwrite argument; readable says whether open(input_path,    *)
(* 'r') succeeds.  open(output, 'w') creates or truncates the file.        *)
Call(ow, readable) ==
    /\ pc = "idle"
    /\ runs < MaxRuns
    /\ runs' = runs + 1
    /\ overwrite' = ow
    /\ folder_exists' = TRUE
    /\ IF ShouldWrite(exists, ow)
       THEN /\ message' = "started"
            /\ exists' = <<TRUE, TRUE>>
            /\ content' = << <<>>, <<>> >>
            /\ output_files' = <<"open", "open">>
            /\ IF readable
               THEN input_file' = "open" /\ pc' = "loop" /\ error' = "none"
               ELSE input_file' = "none" /\ pc' = "raised" /\ error' = "IOError"
       ELSE /\ message' = "aborted"
            /\ pc' = "returned"
            /\ UNCHANGED <<exists, content, output_files, input_file, error>>
    /\ UNCHANGED loopVars
    /\ UNCHANGED pathVars

(* Lines 143-144: the loop pulls one record out of the generator, which    *)
(* reads lines until it yields, and hands it to split_record.  One raw     *)
(* line is read per step.                                                  *)
ReadLine(raw) ==
    /\ pc = "loop"
    /\ Len(input) < MaxLines
    /\ input' = Append(input, raw)
    /\ LET r == Feed(header, sequence, quality, at, raw, Len(input) + 1)
       IN  /\ header' = r.header
           /\ sequence' = r.sequence
           /\ quality' = r.quality
           /\ at' = r.at
           /\ IF r.raised
              THEN /\ pc' = "raised"
                   /\ error' = "IndexError"
                   /\ UNCHANGED <<records, origin, content>>
              ELSE /\ UNCHANGED <<pc, error>>
                   /\ IF r.yielded
                      THEN /\ records' = Append(records, r.rec)
                           /\ origin' = Append(origin, r.from)
                           /\ content' = split_record(content, r.rec[1], r.rec[2], r.rec[3])
                      ELSE UNCHANGED <<records, origin, content>>
    /\ UNCHANGED <<runs, overwrite, folder_exists, exists, output_files, input_file,
                   message>>
    /\ UNCHANGED pathVars

(* Lines 145-147: the input is exhausted; an incomplete record in the      *)
(* slots is dropped, and the three files are closed.                       *)
EndOfFile ==
    /\ pc = "loop"
    /\ pc' = "returned"
    /\ input_file' = "closed"
    /\ output_files' = <<"closed", "closed">>
    /\ UNCHANGED <<runs, overwrite, folder_exists, exists, content, message, error>>
    /\ UNCHANGED loopVars
    /\ UNCHANGED pathVars

(* The script is run again: Splitter.py:152-156 starts a new call. *)
Rerun ==
    /\ pc \in {"returned", "raised"}
    /\ runs < MaxRuns
    /\ pc' = "idle"
    /\ output_files' = <<"none", "none">>
    /\ input_file' = "none"
    /\ input' = <<>>
    /\ header' = <<>>
    /\ sequence' = <<>>
    /\ quality' = <<>>
    /\ at' = <<0, 0>>
    /\ records' = <<>>
    /\ origin' = <<>>
    /\ message' = "none"
    /\ error' = "none"
    /\ UNCHANGED <<runs, overwrite, folder_exists, exists, content>>
    /\ UNCHANGED pathVars

Next ==
    \/ \E ow \in BOOLEAN, readable \in BOOLEAN : Call(ow, readable)
    \/ \E raw \in Lines : ReadLine(raw)
    \/ EndOfFile
    \/ Rerun

Spec == Init /\ [][Next]_vars

----------------------------------------------------------------------------
(* split_record called on its own, on any record. *)

Bases == {"A", "C"}
Scores == {"I", "#"}

InitSplit ==
    /\ pc = "split_args"
    /\ header \in { <<"@">>, <<"@", "r">> }
    /\ sequence \in StringsUpTo(Bases, MaxSeqLen)
    /\ quality \in StringsUpTo(Scores, MaxSeqLen)
    /\ content = << <<>>, <<>> >>
    /\ output_files = <<"open", "open">>
    /\ exists = <<TRUE, TRUE>>
    /\ folder_exists = TRUE
    /\ runs = 0
    /\ overwrite = FALSE
    /\ input_file = "none"
    /\ input = <<>>
    /\ at = <<0, 0>>
    /\ records = <<>>
    /\ origin = <<>>
    /\ message = "none"
    /\ error = "none"
    /\ input_path = <<>>
    /\ folder_path = <<>>
    /\ output_paths = <<>>

SplitCall ==
    /\ pc = "split_args"
    /\ pc' = "split_done"
    /\ content' = split_record(content, header, sequence, quality)
    /\ UNCHANGED <<runs, overwrite, folder_exists, exists, output_files, input_file,
                   message, error>>
    /\ UNCHANGED loopVars
    /\ UNCHANGED pathVars

NextSplit == SplitCall

SpecSplit == InitSplit /\ [][NextSplit]_vars

----------------------------------------------------------------------------
(* generate_output_paths called on its own, on any path. *)

PathChars == {".", "/", "a", "b"}
Folders == { <<"o">>, <<"o", "/", "p">> }

InitPaths ==
    /\ pc = "paths_args"
    /\ input_path \in StringsUpTo(PathChars, MaxPathLen)
    /\ folder_path \in Folders
    /\ output_paths = <<>>
    /\ runs = 0
    /\ overwrite = FALSE
    /\ folder_exists = TRUE
    /\ exists = <<FALSE, FALSE>>
    /\ content = << <<>>, <<>> >>
    /\ output_files = <<"none", "none">>
    /\ input_file = "none"
    /\ input = <<>>
    /\ header = <<>>
    /\ sequence = <<>>
    /\ quality = <<>>
    /\ at = <<0, 0>>
    /\ records = <<>>
    /\ origin = <<>>
    /\ message = "none"
    /\ error = "none"

PathsCall ==
    /\ pc = "paths_args"
    /\ pc' = "paths_done"
    /\ output_paths' = generate_output_paths(input_path, folder_path)
    /\ UNCHANGED <<input_path, folder_path, runs, overwrite>>
    /\ UNCHANGED fileVars
    /\ UNCHANGED loopVars

NextPaths == PathsCall

SpecPaths == InitPaths /\ [][NextPaths]_vars

----------------------------------------------------------------------------
(* Properties *)

Started == message = "started"

(* The lines are N four-line records: '@' header, non-empty sequence, '+'  *)
(* separator, non-empty quality as long as the sequence.  The sequence     *)
(* begins with no marker; any character may begin the quality, '@' being   *)
(* the Phred score 31.                                                     *)
WellFormed4(lines) ==
    /\ Len(lines) % 4 = 0
    /\ \A k \in 1..(Len(lines) \div 4) :
         LET h == strip(lines[4 * k - 3])
             s == strip(lines[4 * k - 2])
             p == strip(lines[4 * k - 1])
             q == strip(lines[4 * k])
         IN  /\ h # <<>> /\ h[1] = "@"
             /\ s # <<>> /\ s[1] \notin {"@", "+"}
             /\ p # <<>> /\ p[1] = "+"
             /\ q # <<>> /\ Len(q) = Len(s)

(* C1: record count preservation.  When the input read to its end is N     *)
(* well-formed four-line records, extract_record has yielded N records and *)
(* each output file holds N four-line sub-records.                         *)
C1_RecordCountPreserved ==
    (pc = "returned" /\ Started /\ WellFormed4(input)) =>
        LET N == Len(input) \div 4
        IN  /\ Len(records) = N
            /\ Len(content[1]) = 4 * N
            /\ Len(content[2]) = 4 * N

(* C2: length split law.  split_record writes a forward sequence of        *)
(* floor(L/2) characters and a reverse sequence of L - floor(L/2), which   *)
(* sum to L; for odd L the forward one is one character shorter.           *)
C2_LengthSplitLaw ==
    pc = "split_done" =>
        LET L == Len(sequence)
            fwd == Len(content[1][2])
            rev == Len(content[2][2])
        IN  /\ fwd = L \div 2
            /\ rev = L - (L \div 2)
            /\ fwd + rev = L
            /\ (L % 2 = 1) => (fwd + 1 = rev)

C2_Witness ==
    /\ pc = "split_done"
    /\ Len(sequence) = 5
    /\ Len(content[1][2]) = 2
    /\ Len(content[2][2]) = 3

(* C3: content round trip.  The forward sequence line followed by the      *)
(* reverse sequence line is the record's sequence; when the quality is as  *)
(* long as the sequence, the same holds of the two quality lines.          *)
C3_ContentRoundTrip ==
    pc = "split_done" =>
        /\ content[1][2] \o content[2][2] = sequence
        /\ (Len(quality) = Len(sequence)) => (content[1][4] \o content[2][4] = quality)

C3_Witness ==
    /\ pc = "split_done"
    /\ Len(sequence) = 3
    /\ Len(quality) = 3
    /\ content[1][2] # <<>>
    /\ content[1][4] \o content[2][4] = quality
    /\ content[1][4] # content[2][4]

(* C4: ordering and header preservation.  In a run that opened the output  *)
(* files, the k-th sub-record of the forward file and the k-th of the      *)
(* reverse file carry the header of the k-th yielded record and hold the   *)
(* two halves of its sequence; there are as many sub-records in each file  *)
(* as records yielded.                                                     *)
C4_OrderAndHeaders ==
    (output_files[1] # "none") =>
        /\ Len(content[1]) = 4 * Len(records)
        /\ Len(content[2]) = 4 * Len(records)
        /\ \A k \in 1..Len(records) :
             /\ content[1][4 * k - 3] = records[k][1]
             /\ content[2][4 * k - 3] = records[k][1]
             /\ content[1][4 * k - 2] \o content[2][4 * k - 2] = records[k][2]

C4_Witness ==
    /\ pc = "returned"
    /\ Len(records) = 2
    /\ records[1][1] # records[2][1]
    /\ records[1][2] # records[2][2]
    /\ content[1][5] = records[2][1]

(* C5: with overwrite false and both output paths present, the call opens  *)
(* no output file, prints the aborted message, ends without an error and   *)
(* leaves both files as they were.                                         *)
C5_NoOverwriteIsNoOp ==
    [][ (pc = "idle" /\ pc' # "idle" /\ ~overwrite' /\ exists[1] /\ exists[2]) =>
            /\ pc' = "returned"
            /\ message' = "aborted"
            /\ error' = "none"
            /\ output_files' = <<"none", "none">>
            /\ content' = content
            /\ exists' = exists ]_vars

(* A second call that aborted over the output of a first one. *)
C5_Witness ==
    /\ pc = "returned"
    /\ message = "aborted"
    /\ runs = 2
    /\ Len(content[1]) = 4
    /\ content[1][1] = <<"@", "s">>

(* The lines are blocks of three: '@' header, then a sequence line and a   *)
(* quality line that are neither empty nor begin with a marker.            *)
Blocks3(lines) ==
    /\ Len(lines) % 3 = 0
    /\ \A k \in 1..(Len(lines) \div 3) :
         LET h == strip(lines[3 * k - 2])
             s == strip(lines[3 * k - 1])
             q == strip(lines[3 * k])
         IN  /\ h # <<>> /\ h[1] = "@"
             /\ s # <<>> /\ s[1] \notin {"@", "+"}
             /\ q # <<>> /\ q[1] \notin {"@", "+"}

BlockRecords(lines) ==
    [k \in 1..(Len(lines) \div 3) |->
        <<strip(lines[3 * k - 2]), strip(lines[3 * k - 1]), strip(lines[3 * k])>>]

(* The same blocks with a '+' line between sequence and quality. *)
WithSeparators(lines) ==
    [i \in 1..(4 * (Len(lines) \div 3)) |->
        LET k == (i + 3) \div 4
            j == i - 4 * (k - 1)
        IN  IF j = 1 THEN lines[3 * k - 2]
            ELSE IF j = 2 THEN lines[3 * k - 1]
            ELSE IF j = 3 THEN <<"+", NL>>
            ELSE lines[3 * k]]

(* C6: the separator line is optional.  From blocks without a '+' line     *)
(* extract_record yields the records made of the three lines of each       *)
(* block, which are the records it yields from the same blocks with the    *)
(* '+' line present.                                                       *)
C6_SeparatorOptional ==
    (pc \in {"loop", "returned"} /\ Blocks3(input)) =>
        /\ records = BlockRecords(input)
        /\ extract_record(WithSeparators(input)) = [records |-> records, raised |-> FALSE]

C6_Witness ==
    /\ pc = "returned"
    /\ Blocks3(input)
    /\ Len(input) = 6
    /\ Len(records) = 2
    /\ records[1] # records[2]

(* C7: no run ends with an output stream it opened still open; stated for  *)
(* the runs that reached the record loop.                                  *)
C7_StreamsReleased ==
    (pc \in {"returned", "raised"} /\ input_file # "none") =>
        \A i \in 1..2 : output_files[i] # "open"

(* The index of the last c in s, 0 when there is none. *)
LastIndexOf(s, c) ==
    LET found == { i \in 1..Len(s) : s[i] = c }
    IN  IF found = {} THEN 0 ELSE CHOOSE i \in found : \A j \in found : j <= i

(* C8: output path derivation.  For an input path whose final component is *)
(* name.ext, ext being what follows its last dot, the result is            *)
(* outdir/name_forward.ext and outdir/name_reverse.ext, in that order.     *)
(* Stated for the components that neither begin nor end with a dot and     *)
(* hold no two dots in a row.                                              *)
C8_OutputPaths ==
    LET component == SubSeq(input_path, LastIndexOf(input_path, "/") + 1, Len(input_path))
        dot == LastIndexOf(component, ".")
        name == SubSeq(component, 1, dot - 1)
        ext == SubSeq(component, dot + 1, Len(component))
    IN  (pc = "paths_done" /\ dot > 0 /\ \A i \in 1..Len(Split(component)) :
                                              Split(component)[i] # <<>>) =>
            output_paths =
                << folder_path \o <<"/">> \o name \o <<"_">> \o Forward \o <<".">> \o ext,
                   folder_path \o <<"/">> \o name \o <<"_">> \o Reverse \o <<".">> \o ext >>

(* C9: empty-line handling.  A line that is empty after trimming never     *)
(* makes extract_record fail, and the records yielded are those of the     *)
(* input without that line.                                                *)
C9_EmptyLineHarmless ==
    (input # <<>> /\ strip(input[Len(input)]) = <<>>) =>
        /\ error # "IndexError"
        /\ pc # "raised"
        /\ records = extract_record(SubSeq(input, 1, Len(input) - 1)).records

(* C10: a header line begins a new record.  Every yielded record has a     *)
(* header that starts with '@' and a sequence that is the input line right *)
(* after the line that became that header.                                 *)
C10_HeaderBeginsRecord ==
    \A k \in 1..Len(records) :
        /\ records[k][1][1] = "@"
        /\ origin[k][2] = origin[k][1] + 1
        /\ records[k][2] = strip(input[origin[k][1] + 1])

============================================================================
